---- MODULE Spec2Model ----
(***************************************************************************)
(* Model of run_simulation (src/growth_solver.py): the greedy, sun-biased  *)
(* growth of a colony of modules over a terrain mesh, with stochastic      *)
(* backtracking when the cursor is blocked.                                *)
(*                                                                         *)
(* Coordinates.  The six growth directions are step_size * (cos, sin) of   *)
(* multiples of 60 degrees, so every offset is an integer combination of   *)
(* step_size/2 along x and step_size*sqrt(3)/2 along y.  A point <<X,Y,Z>> *)
(* of the model stands for the real point                                  *)
(*      (X * step_size/2, Y * step_size*sqrt(3)/2, Z * step_size*sqrt(3)/2)*)
(* which makes every distance and every score comparison of the code an    *)
(* exact comparison of integers (real arithmetic, no rounding).            *)
(***************************************************************************)
EXTENDS Integers, Sequences, FiniteSets, TLC

VARIABLES pc,            \* "start" (called), "loop" (line 59), "done" (returned)
          terrain_mesh, seed_point, max_modules,      \* the arguments, line 24
          current, modules, iterations, i,            \* the locals of run_simulation
          history,       \* the branch taken by each iteration so far
          fp,            \* how the floating-point evaluation of a score rounds
          tape, pos,     \* the stream of the seeded generator, and how much is consumed
          run, first     \* the number of this run and the result of the first run

vars == <<pc, terrain_mesh, seed_point, max_modules, current, modules,
          iterations, i, history, fp, tape, pos, run, first>>

----------------------------------------------------------------------------
(* Bounds of the model *)
MaxModules == 3        \* largest iteration budget max_modules explored
PatchX     == 2        \* half-width  (in X units) of the finite mesh patches
PatchY     == 1        \* half-height (in Y units) of the finite mesh patches
RandomGrain == 3       \* number of distinct values random() can return

----------------------------------------------------------------------------
(* PARAMS, lines 27-32, in tenths of a metre / degrees *)
max_slope_deg == 30
min_dist      == 30
step_size     == 35
tolerance     == 1          \* the literal 0.1 of line 85
sun_vec       == <<0, -6, 1>>   \* (0,-3,0.5) in model units, up to a positive factor

None == <<>>                \* Python's None (no mesh point, no best candidate)

Sgn(n) == IF n < 0 THEN -1 ELSE IF n > 0 THEN 1 ELSE 0

(* Variant of growth_directions: the angles run clockwise *)
growth_directions_cw ==
  << <<2, 0, 0>>, <<1, -1, 0>>, <<-1, -1, 0>>, <<-2, 0, 0>>, <<-1, 1, 0>>, <<1, 1, 0>> >>

(* Hexagonal search directions, lines 38-43: angle k*60 degrees, k = 0..5,  *)
(* scaled by step_size; in model units (step_size/2, step_size*sqrt(3)/2).  *)
growth_directions ==
  << <<2, 0, 0>>, <<1, 1, 0>>, <<-1, 1, 0>>, <<-2, 0, 0>>, <<-1, -1, 0>>, <<1, -1, 0>> >>

Add(p, d) == <<p[1] + d[1], p[2] + d[2], p[3] + d[3]>>
Sub(p, q) == <<p[1] - q[1], p[2] - q[2], p[3] - q[3]>>

(* Squared length of a vector in units of (step_size/2)^2 *)
Norm2(d) == d[1] * d[1] + 3 * d[2] * d[2] + 3 * d[3] * d[3]

(* Variant of TooClose: a module exactly step_size away is too close *)
TooCloseWithinStep(p, q) ==
  step_size * step_size * Norm2(Sub(p, q)) <= 4 * step_size * step_size

(* Point3d.DistanceTo(existing) < min_dist - 0.1, line 85, compared on      *)
(* squares: (step_size/2)^2 * Norm2 < (min_dist - tolerance)^2              *)
TooClose(p, q) ==
  step_size * step_size * Norm2(Sub(p, q)) < 4 * (min_dist - tolerance) * (min_dist - tolerance)

----------------------------------------------------------------------------
(* The terrain mesh and the geometry queries made on it.                    *)
(* A mesh is either an unbounded plane at Z = 0 or a finite patch of        *)
(* vertices over a set of <<X,Y>> columns; relief gives the height of a     *)
(* column, steep the angle of its normal with the Z axis, and blind the     *)
(* query points for which the closest-point query reports no hit.           *)

HeightAt(mesh, x, y) ==
  IF mesh.relief = "step" /\ x >= 1 THEN 1 ELSE 0

SlopeDegAt(mesh, x, y) ==
  CASE mesh.steep = "gentle" -> 0
    [] mesh.steep = "limit"  -> max_slope_deg
    [] mesh.steep = "steep"  -> max_slope_deg + 1
    [] mesh.steep = "south"  -> IF y < 0 THEN max_slope_deg + 1 ELSE 0

Blind(mesh, p) ==
  CASE mesh.blind = "none"   -> FALSE
    [] mesh.blind = "origin" -> p[1] = 0 /\ p[2] = 0
    [] mesh.blind = "east"   -> p[1] > 0

Vertex(mesh, c) == <<c[1], c[2], HeightAt(mesh, c[1], c[2])>>

(* The vertices of a patch nearest to p; the first in (X,Y) order is the hit *)
Before(a, b) == a[1] < b[1] \/ (a[1] = b[1] /\ a[2] < b[2])

Nearest(mesh, p) ==
  LET vs == {Vertex(mesh, c) : c \in mesh.cols}
      near == {v \in vs : \A w \in vs : Norm2(Sub(p, v)) <= Norm2(Sub(p, w))}
  IN  CHOOSE v \in near : \A w \in near : w = v \/ Before(v, w)

SenseRadius2 == 326530    \* (1000.0 / (step_size/2))^2, the radius of line 69

(* terrain_mesh.ClosestMeshPoint(pt, maxDist).Point, or None *)
ClosestMeshPoint(mesh, p, radius2) ==
  IF Blind(mesh, p) THEN None
  ELSE IF mesh.kind = "plane" THEN <<p[1], p[2], 0>>
  ELSE IF mesh.cols = {} THEN None
  ELSE LET v == Nearest(mesh, p)
       IN  IF Norm2(Sub(p, v)) <= radius2 THEN v ELSE None

(* degrees(VectorAngle(terrain_mesh.NormalAt(mp), ZAxis)), lines 77-78 *)
SlopeDeg(mesh, v) == SlopeDegAt(mesh, v[1], v[2])

SeedRadius2 == 2147483647   \* radius 1000000.0 of line 49: beyond every distance of the model

----------------------------------------------------------------------------
(* A. SENSING and B. CONSTRAINT CHECKING, lines 61-91 *)

(* Variant of Collision: only the module placed last is measured *)
CollisionLastOnly(cand_pt, mods) == TooClose(cand_pt, mods[Len(mods)])

(* Crit 2, lines 83-89: some existing module is closer than min_dist - 0.1 *)
Collision(cand_pt, mods) ==
  \E k \in 1..Len(mods) : TooClose(cand_pt, mods[k])

(* Variant of Candidate: the slope test is >=, a normal at exactly          *)
(* max_slope_deg is refused                                                 *)
CandidateStrictSlope(mesh, cur, mods, k) ==
  LET test_pt  == Add(cur, growth_directions[k])
      mp_check == ClosestMeshPoint(mesh, test_pt, SenseRadius2)
  IN  IF mp_check = None THEN None
      ELSE IF SlopeDeg(mesh, mp_check) >= max_slope_deg THEN None
      ELSE IF Collision(mp_check, mods) THEN None
      ELSE mp_check

(* The grounded candidate of direction k (1..6), or None when it is dropped *)
Candidate(mesh, cur, mods, k) ==
  LET test_pt  == Add(cur, growth_directions[k])
      mp_check == ClosestMeshPoint(mesh, test_pt, SenseRadius2)
  IN  IF mp_check = None THEN None
      ELSE IF SlopeDeg(mesh, mp_check) > max_slope_deg THEN None
      ELSE IF Collision(mp_check, mods) THEN None
      ELSE mp_check

(* Variant of Candidates: a dropped candidate ends the scan of the          *)
(* directions (break, not continue)                                         *)
CandidatesBreak(mesh, cur, mods) ==
  LET F[k \in 0..6] ==
        IF k = 0 THEN <<>>
        ELSE LET c == Candidate(mesh, cur, mods, k)
             IN  IF c = None \/ (\E j \in 1..(k - 1) : Candidate(mesh, cur, mods, j) = None)
                 THEN F[k - 1] ELSE Append(F[k - 1], c)
  IN  F[6]

(* The list candidates at line 93: accepted points in direction order *)
Candidates(mesh, cur, mods) ==
  LET F[k \in 0..6] ==
        IF k = 0 THEN <<>>
        ELSE LET c == Candidate(mesh, cur, mods, k)
             IN  IF c = None THEN F[k - 1] ELSE Append(F[k - 1], c)
  IN  F[6]

----------------------------------------------------------------------------
(* C. DECISION MAKING, lines 101-115 *)

(* The scores are doubles.  The sun vector has no x component, so a growth  *)
(* vector and its mirror image in x have the same real score, and which of  *)
(* the two computed doubles is the larger is decided by the rounding of     *)
(* lines 107-111 (cos and sin of line 41, the subtraction, Unitize, the dot *)
(* product).  fp gives, for the cursors of even and of odd row Y, the side  *)
(* the rounding favours: 1 east, -1 west, 0 none (the doubles are equal).   *)
Rounding(cand, cur) == fp[(cur[2] % 2) + 1] * Sgn(cand[1] - cur[1])

(* score = Unitize(cand - current) * sun_vec, line 107-111.  A score s is   *)
(* kept as the fraction num/den = s*|s|, which orders scores as s does:     *)
(* s^2 = 3 n^2 / (Norm2(d) * |sun|^2) with n the model-unit dot product;    *)
(* ulp orders the doubles of equal real value.                              *)
Score(cand, cur, sun) ==
  LET growth_dir == Sub(cand, cur)
      n == sun[2] * growth_dir[2] + sun[3] * growth_dir[3]
  IN  [num |-> Sgn(n) * 3 * n * n,
       den |-> Norm2(growth_dir) * (sun[2] * sun[2] + sun[3] * sun[3]),
       ulp |-> Rounding(cand, cur)]

(* Variant of InitialBestScore: the scan starts from +999.0, which no score *)
(* exceeds                                                                  *)
InitialBestScoreHigh == [num |-> 998001, den |-> 1, ulp |-> 0]

InitialBestScore == [num |-> -998001, den |-> 1, ulp |-> 0]   \* best_score = -999.0, line 103

(* Variant of Greater: score >= best_score *)
GreaterOrEqual(a, b) ==
  \/ a.num * b.den > b.num * a.den
  \/ (a.num * b.den = b.num * a.den /\ a.ulp >= b.ulp)

(* score > best_score, line 113 *)
Greater(a, b) ==
  \/ a.num * b.den > b.num * a.den
  \/ (a.num * b.den = b.num * a.den /\ a.ulp > b.ulp)

(* The loop of lines 102-115: best_cand after scanning cands in order *)
SelectBest(cands, cur, sun) ==
  LET F[k \in 0..Len(cands)] ==
        IF k = 0 THEN [best_cand |-> None, best_score |-> InitialBestScore]
        ELSE LET score == Score(cands[k], cur, sun)
             IN  IF Greater(score, F[k - 1].best_score)
                 THEN [best_cand |-> cands[k], best_score |-> score]
                 ELSE F[k - 1]
  IN  F[Len(cands)].best_cand

(* Variant of NextRandom: the generator is not seeded, every value is fresh *)
NextRandomUnseeded(tp, ps, r) == r

(* random(): the next value of the generator's stream.  A seeded generator  *)
(* repeats the stream it produced before from the same seed (tp, consumed   *)
(* up to position ps); beyond what has been observed the value is r.        *)
NextRandom(tp, ps, r) == IF ps < Len(tp) THEN tp[ps + 1] ELSE r

(* Variant of RandomChoice: the seed is passed over when there is another   *)
(* module                                                                   *)
RandomChoiceNotSeed(r, mods) ==
  LET k == ((r * Len(mods)) \div RandomGrain) + 1
  IN  mods[IF k = 1 /\ Len(mods) > 1 THEN 2 ELSE k]

(* random.choice(modules), line 98: modules[int(random() * len(modules))],  *)
(* with random() = r / RandomGrain                                          *)
RandomChoice(r, mods) == mods[((r * Len(mods)) \div RandomGrain) + 1]

(* Variant of LoopRange: range(1, max_modules) *)
LoopRangeShort(n) == 1..(n - 1)

(* range(1, max_modules + 1), line 59 *)
LoopRange(n) == 1..n

----------------------------------------------------------------------------
(* Inputs *)
Rect(x0, x1, y0, y1) == {<<x, y>> : x \in x0..x1, y \in y0..y1}

Patches ==
  {Rect(-a, b, -c, d) : a \in {0, PatchX}, b \in {0, PatchX},
                        c \in {0, PatchY}, d \in {0, PatchY}} \cup {{}}

Terrains ==
  [kind : {"plane"}, cols : {{}}, relief : {"level"},
   steep : {"gentle", "limit", "steep", "south"}, blind : {"none", "origin", "east"}]
  \cup
  [kind : {"patch"}, cols : Patches, relief : {"level"},
   steep : {"gentle", "limit", "steep", "south"}, blind : {"none"}]
  \cup
  [kind : {"patch"}, cols : Patches, relief : {"level"},
   steep : {"gentle", "south"}, blind : {"origin", "east"}]
  \cup
  [kind : {"patch"}, cols : Patches, relief : {"step"},
   steep : {"gentle", "limit"}, blind : {"none"}]

SeedPoints == {<<0, 0, 0>>, <<0, 0, 1>>, <<1, 0, 0>>}

(* Roundings: none, or to the east on even rows and to the west on odd rows *)
Roundings == {<<0, 0>>, <<1, -1>>}

Init ==
  /\ pc = "start"
  /\ terrain_mesh \in Terrains
  /\ seed_point \in SeedPoints
  /\ max_modules \in 0..MaxModules
  /\ fp \in Roundings
  /\ current = None
  /\ modules = <<>>
  /\ iterations = <<>>
  /\ i = 0
  /\ history = <<>>
  /\ tape = <<>>
  /\ pos = 0
  /\ run = 1
  /\ first = None

(* Variant of Seed: the colony keeps the raw seed point, the cursor the snapped one *)
SeedKeepsRaw ==
  /\ pc = "start"
  /\ LET mp == ClosestMeshPoint(terrain_mesh, seed_point, SeedRadius2)
     IN  current' = IF mp # None THEN mp ELSE seed_point
  /\ modules' = <<seed_point>>
  /\ iterations' = <<0>>
  /\ i' = 1
  /\ pc' = "loop"
  /\ UNCHANGED <<terrain_mesh, seed_point, max_modules, fp, history, tape, pos, run, first>>

(* 2. INITIALIZATION, lines 46-55: snap the seed to the terrain *)
Seed ==
  /\ pc = "start"
  /\ LET mp == ClosestMeshPoint(terrain_mesh, seed_point, SeedRadius2)
     IN  current' = IF mp # None THEN mp ELSE seed_point
  /\ modules' = <<current'>>
  /\ iterations' = <<0>>
  /\ i' = 1
  /\ pc' = "loop"
  /\ UNCHANGED <<terrain_mesh, seed_point, max_modules, fp, history, tape, pos, run, first>>

(* Variant of Blocked: the blocked iteration is retried, not counted *)
BlockedRetries ==
  /\ pc = "loop"
  /\ i \in 1..max_modules
  /\ Candidates(terrain_mesh, current, modules) = <<>>
  /\ \E r \in 0..(RandomGrain - 1) :
       current' = modules[((r * Len(modules)) \div RandomGrain) + 1]
  /\ UNCHANGED <<pc, i, history, tape, pos, terrain_mesh, seed_point, max_modules, fp,
                 modules, iterations, run, first>>

(* Variant of Blocked: a blocked cursor ends the loop (break, not continue) *)
BlockedBreaks ==
  /\ pc = "loop"
  /\ i \in 1..max_modules
  /\ Candidates(terrain_mesh, current, modules) = <<>>
  /\ \E r \in 0..(RandomGrain - 1) :
       /\ current' = modules[((r * Len(modules)) \div RandomGrain) + 1]
       /\ tape' = Append(tape, r)
  /\ pos' = pos + 1
  /\ pc' = "done"
  /\ history' = Append(history, "BLOCKED")
  /\ UNCHANGED <<i, terrain_mesh, seed_point, max_modules, fp, modules, iterations, run, first>>

(* Variant of Blocked: backtracking drops the dead-end module from the colony *)
BlockedPops ==
  /\ pc = "loop"
  /\ i \in 1..max_modules
  /\ Candidates(terrain_mesh, current, modules) = <<>>
  /\ modules' = IF Len(modules) > 1 THEN SubSeq(modules, 1, Len(modules) - 1) ELSE modules
  /\ iterations' = IF Len(modules) > 1 THEN SubSeq(iterations, 1, Len(modules) - 1) ELSE iterations
  /\ \E r \in 0..(RandomGrain - 1) :
       /\ current' = modules'[((r * Len(modules')) \div RandomGrain) + 1]
       /\ tape' = Append(tape, r)
  /\ pos' = pos + 1
  /\ i' = i + 1
  /\ history' = Append(history, "BLOCKED")
  /\ UNCHANGED <<pc, terrain_mesh, seed_point, max_modules, fp, run, first>>

(* The BLOCKED branch, lines 97-99: the cursor is re-selected from the      *)
(* colony and the iteration is over                                         *)
Backtrack ==
  /\ \E r \in 0..(RandomGrain - 1) :
       LET v == NextRandom(tape, pos, r)
       IN  /\ r = v
           /\ current' = RandomChoice(v, modules)
           /\ tape' = IF pos < Len(tape) THEN tape ELSE Append(tape, v)
  /\ pos' = pos + 1
  /\ i' = i + 1
  /\ history' = Append(history, "BLOCKED")
  /\ UNCHANGED <<pc, terrain_mesh, seed_point, max_modules, fp, modules, iterations,
                 run, first>>

(* One iteration of the loop of line 59 that finds no candidate, lines 96-99 *)
Blocked ==
  /\ pc = "loop"
  /\ i \in LoopRange(max_modules)
  /\ Candidates(terrain_mesh, current, modules) = <<>>
  /\ Backtrack

(* Variant of Grow: the creation index is the colony size, not the iteration *)
GrowIndexBySize ==
  /\ pc = "loop"
  /\ i \in 1..max_modules
  /\ LET candidates == Candidates(terrain_mesh, current, modules)
         best_cand  == SelectBest(candidates, current, sun_vec)
     IN  /\ candidates # <<>>
         /\ modules' = Append(modules, best_cand)
         /\ iterations' = Append(iterations, Len(modules))
         /\ current' = best_cand
  /\ i' = i + 1
  /\ history' = Append(history, "GROWING")
  /\ UNCHANGED <<pc, terrain_mesh, seed_point, max_modules, fp, tape, pos, run, first>>

(* One iteration of the loop of line 59 with candidates, lines 101-121 *)
Grow ==
  /\ pc = "loop"
  /\ i \in LoopRange(max_modules)
  /\ \E candidates \in {Candidates(terrain_mesh, current, modules)} :
       \E best_cand \in {SelectBest(candidates, current, sun_vec)} :
         /\ candidates # <<>>
         /\ IF best_cand # None
            THEN /\ modules' = Append(modules, best_cand)
                 /\ iterations' = Append(iterations, i)
                 /\ current' = best_cand
            ELSE UNCHANGED <<modules, iterations, current>>
  /\ i' = i + 1
  /\ history' = Append(history, "GROWING")
  /\ UNCHANGED <<pc, terrain_mesh, seed_point, max_modules, fp, tape, pos, run, first>>

(* The budget is exhausted: lines 123-124, return modules *)
Return ==
  /\ pc = "loop"
  /\ i \notin LoopRange(max_modules)
  /\ pc' = "done"
  /\ UNCHANGED <<terrain_mesh, seed_point, max_modules, fp, current, modules,
                 iterations, i, history, tape, pos, run, first>>

Next == Seed \/ Blocked \/ Grow \/ Return

Spec == Init /\ [][Next]_vars

(* Until the return of line 124 some step of Next can be taken: the seeding *)
(* at "start"; at "loop" an iteration (Blocked when candidates is empty,    *)
(* Grow when it is not) while i is in the loop range, Return when it is not.*)
Running == pc # "done"

(* The run is sequential and every query returns: a step that can be taken *)
(* is taken.  This is weak fairness of Next, WF_vars(Next), with            *)
(* ENABLED <<Next>>_vars written as the state predicate Running.            *)
FairSpec == Spec /\ ([]<><<Next>>_vars \/ []<>~Running)

----------------------------------------------------------------------------
(* Two runs on the same inputs.  The entry point (lines 126-129) calls      *)
(* run_simulation again with the same terrain, seed point and budget, the   *)
(* generator having been seeded as for the first run: its stream restarts.  *)
Rerun ==
  /\ pc = "done"
  /\ run = 1
  /\ first' = [modules |-> modules, iterations |-> iterations]
  /\ run' = 2
  /\ pos' = 0
  /\ pc' = "start"
  /\ current' = None
  /\ modules' = <<>>
  /\ iterations' = <<>>
  /\ i' = 0
  /\ history' = <<>>
  /\ UNCHANGED <<terrain_mesh, seed_point, max_modules, fp, tape>>

NextPair == Next \/ Rerun

SpecPair == Init /\ [][NextPair]_vars

----------------------------------------------------------------------------
(* Properties *)

Count(seq, x) == Cardinality({k \in 1..Len(seq) : seq[k] = x})
IsPrefix(s, t) == Len(s) <= Len(t) /\ SubSeq(t, 1, Len(s)) = s

(* p and q are at least min_dist - tolerance apart *)
Apart(p, q) ==
  step_size * step_size * Norm2(Sub(p, q)) >= 4 * (min_dist - tolerance) * (min_dist - tolerance)

(* p is a point of the mesh *)
OnMesh(mesh, p) ==
  IF mesh.kind = "plane" THEN p[3] = 0
  ELSE <<p[1], p[2]>> \in mesh.cols /\ p[3] = HeightAt(mesh, p[1], p[2])

(* C1: in every state of a run, any two distinct modules of the colony are  *)
(* at least min_dist - tolerance apart.                                     *)
C1_Spacing ==
  \A a, b \in 1..Len(modules) : a # b => Apart(modules[a], modules[b])

(* C1 witness: a colony of three modules, grown after a backtrack, whose    *)
(* cursor has a grounded, gentle candidate that is too close to a module    *)
(* other than the cursor.                                                   *)
C1_Witness ==
  /\ pc = "loop"
  /\ Len(modules) >= 3
  /\ "BLOCKED" \in {history[k] : k \in 1..Len(history)}
  /\ \E k \in 1..6 :
       LET mp == ClosestMeshPoint(terrain_mesh, Add(current, growth_directions[k]), SenseRadius2)
       IN  /\ mp # None
           /\ SlopeDeg(terrain_mesh, mp) <= max_slope_deg
           /\ \E m \in 1..Len(modules) : modules[m] # current /\ ~Apart(mp, modules[m])

(* C2: every module of the colony, the seed included, is a point of the     *)
(* mesh whose normal is within max_slope_deg of the up axis.                *)
C2_SlopeInvariant ==
  \A k \in 1..Len(modules) :
    /\ OnMesh(terrain_mesh, modules[k])
    /\ SlopeDeg(terrain_mesh, modules[k]) <= max_slope_deg

(* C3: when the closest-point query finds nothing for the seed point, the   *)
(* run stops before the loop: no colony is built and no iteration runs.     *)
C3_SeedFailureFatal ==
  ClosestMeshPoint(terrain_mesh, seed_point, SeedRadius2) = None
    => (pc = "start" /\ modules = <<>> /\ history = <<>>)

(* C4: the loop runs exactly max_modules iterations, each either GROWING    *)
(* (one module more) or BLOCKED (colony unchanged); the returned colony has *)
(* 1 + (number of GROWING iterations) <= max_modules + 1 modules, fewer     *)
(* than max_modules + 1 exactly when some iteration was BLOCKED, and only   *)
(* the seed when max_modules = 0.                                           *)
C4_Budget ==
  /\ pc \in {"loop", "done"} =>
       /\ Len(history) = i - 1
       /\ Len(history) <= max_modules
       /\ \A k \in 1..Len(history) : history[k] \in {"GROWING", "BLOCKED"}
       /\ Len(modules) = 1 + Count(history, "GROWING")
       /\ Len(modules) <= max_modules + 1
  /\ pc = "done" =>
       /\ Len(history) = max_modules
       /\ (Len(modules) < max_modules + 1) <=> (Count(history, "BLOCKED") > 0)
       /\ max_modules = 0 => (Len(modules) = 1 /\ iterations = <<0>>)

(* C4 witness: a returned run of three iterations, some GROWING, some BLOCKED *)
C4_Witness ==
  /\ pc = "done"
  /\ max_modules = 3
  /\ Count(history, "GROWING") >= 1
  /\ Count(history, "BLOCKED") >= 1

(* C5: every step of a run leaves the colony as it was or appends to it:    *)
(* the colony before is a prefix of the colony after, and once seeded the   *)
(* colony is never empty, so its first element stays the seed module.       *)
C5_AppendOnly ==
  [][/\ IsPrefix(modules, modules')
     /\ IsPrefix(iterations, iterations')
     /\ (pc' # "start" => (modules' # <<>> /\ iterations'[1] = 0))
     /\ (pc # "start" => modules'[1] = modules[1])]_vars

(* C5 witness: a colony that grew, backtracked, and grew again *)
C5_Witness ==
  /\ Len(modules) >= 3
  /\ \E k \in 1..(Len(history) - 1) : history[k] = "BLOCKED" /\ history[k + 1] = "GROWING"

FirstMax(mesh, cur, mods, sun, k) ==
  LET c(j) == Candidate(mesh, cur, mods, j)
  IN  /\ c(k) # None
      /\ \A j \in 1..6 : c(j) # None =>
            /\ ~Greater(Score(c(j), cur, sun), Score(c(k), cur, sun))
            /\ j < k => Greater(Score(c(k), cur, sun), Score(c(j), cur, sun))

(* C7: whenever some candidate is accepted, the module appended is the      *)
(* accepted candidate of maximal solar score, and among those of maximal    *)
(* score the one of the earliest direction (0, 60, ..., 300 degrees).       *)
C7_TieBreak ==
  [][(pc = "loop" /\ i \in 1..max_modules /\
      \E k \in 1..6 : Candidate(terrain_mesh, current, modules, k) # None)
     => \E k \in 1..6 :
          /\ FirstMax(terrain_mesh, current, modules, sun_vec, k)
          /\ modules' = Append(modules, Candidate(terrain_mesh, current, modules, k))]_vars

(* C7 witness: the first iteration appended the earlier of two accepted,    *)
(* distinct candidates that tie for the maximal score.                      *)
C7_Witness ==
  /\ pc = "loop"
  /\ history = <<"GROWING">>
  /\ \E a, b \in 1..6 :
       LET mods == <<modules[1]>>
           ca == Candidate(terrain_mesh, modules[1], mods, a)
           cb == Candidate(terrain_mesh, modules[1], mods, b)
       IN  /\ a < b
           /\ ca # None /\ cb # None /\ ca # cb
           /\ FirstMax(terrain_mesh, modules[1], mods, sun_vec, a)
           /\ ~Greater(Score(ca, modules[1], sun_vec), Score(cb, modules[1], sun_vec))
           /\ modules[2] = ca

(* Every direction around cur is dropped *)
NoCandidate(mesh, cur, mods) == \A k \in 1..6 : Candidate(mesh, cur, mods, k) = None

(* Every direction around cur is grounded on a point steeper than max_slope_deg *)
SteepAround(mesh, cur) ==
  \A k \in 1..6 :
    LET mp == ClosestMeshPoint(mesh, Add(cur, growth_directions[k]), SenseRadius2)
    IN  mp # None /\ SlopeDeg(mesh, mp) > max_slope_deg

(* C8: an iteration in which no direction yields an accepted candidate      *)
(* leaves the colony unchanged, moves the cursor to a module of the colony  *)
(* and goes on to the next iteration; with terrain steeper than             *)
(* max_slope_deg all around the seed, after iteration 1 the colony is the   *)
(* seed alone and the cursor is the seed.                                   *)
C8_Blockage ==
  /\ [][(pc = "loop" /\ i \in 1..max_modules /\ NoCandidate(terrain_mesh, current, modules))
        => /\ modules' = modules
           /\ iterations' = iterations
           /\ \E m \in 1..Len(modules) : current' = modules[m]
           /\ i' = i + 1
           /\ pc' = "loop"
           /\ history' = Append(history, "BLOCKED")]_vars
  /\ []((pc \in {"loop", "done"} /\ i = 2 /\ SteepAround(terrain_mesh, modules[1]))
        => (Len(modules) = 1 /\ current = modules[1] /\ history = <<"BLOCKED">>))

(* C8 witness: iteration 1 was blocked by slope all around the seed *)
C8_Witness ==
  /\ pc = "loop"
  /\ i = 2
  /\ i <= max_modules
  /\ SteepAround(terrain_mesh, modules[1])
  /\ history = <<"BLOCKED">>

(* C9: an iteration i with an accepted candidate appends exactly the        *)
(* selected candidate, records creation index i for it and moves the        *)
(* cursor onto it; so the creation indices start at 0, increase strictly    *)
(* along the colony, and there is one per module.                           *)
C9_Growing ==
  /\ [][(pc = "loop" /\ i \in 1..max_modules /\ ~NoCandidate(terrain_mesh, current, modules))
        => \E k \in 1..6 :
             LET w == Candidate(terrain_mesh, current, modules, k)
             IN  /\ FirstMax(terrain_mesh, current, modules, sun_vec, k)
                 /\ modules' = Append(modules, w)
                 /\ iterations' = Append(iterations, i)
                 /\ current' = w
                 /\ i' = i + 1]_vars
  /\ [](/\ Len(iterations) = Len(modules)
        /\ (iterations # <<>> => iterations[1] = 0)
        /\ \A k \in 1..(Len(iterations) - 1) : iterations[k] < iterations[k + 1])

(* C9 witness: a module appended after a blocked iteration, so that its     *)
(* creation index is larger than its position in the colony.                *)
C9_Witness ==
  /\ Len(modules) >= 3
  /\ iterations[Len(iterations)] > Len(modules) - 1
  /\ current = modules[Len(modules)]

(* Scenario A: flat horizontal ground, and the sun of the scenario,         *)
(* normalize(0,-1,0.2), in model units up to a positive factor.             *)
FlatGround ==
  [kind |-> "plane", cols |-> {}, relief |-> "level", steep |-> "gentle", blind |-> "none"]
ScenarioSun == <<0, -5, 1>>

C11_Termination ==
  /\ <>(pc = "done")
  /\ [](pc = "done" => (Len(history) = max_modules /\ i = max_modules + 1))

(* C11 witness: a run of three iterations, all BLOCKED, has returned *)
C11_Witness ==
  /\ pc = "done"
  /\ max_modules = 3
  /\ history = <<"BLOCKED", "BLOCKED", "BLOCKED">>

(* The raw candidate of direction k and what the mesh query returns for it *)
RawPoint(cur, k) == Add(cur, growth_directions[k])
Grounded(mesh, cur, k) == ClosestMeshPoint(mesh, RawPoint(cur, k), SenseRadius2)

Verdict(mesh, cur, mods, k) ==
  LET g == Grounded(mesh, cur, k)
  IN  IF g = None THEN "ungrounded"
      ELSE IF SlopeDeg(mesh, g) > max_slope_deg THEN "steep"
      ELSE IF \E m \in 1..Len(mods) : ~Apart(g, mods[m]) THEN "close"
      ELSE "kept"

Kept(c) == c # None

(* C13: the accepted list of an iteration is the list of the six            *)
(* per-direction results, each decided from the cursor, its own offset, the *)
(* mesh and the colony alone, with the dropped ones removed and the others  *)
(* left in direction order: a dropped direction removes nothing else.       *)
C13_LocalRejection ==
  pc = "loop" =>
    LET per == [k \in 1..6 |-> IF Verdict(terrain_mesh, current, modules, k) = "kept"
                               THEN Grounded(terrain_mesh, current, k) ELSE None]
    IN  Candidates(terrain_mesh, current, modules) = SelectSeq(per, Kept)

(* C13 witness: in a colony that has grown, the cursor has a dropped        *)
(* direction before a kept one and a kept one before a dropped one, and     *)
(* directions dropped for two different reasons.                            *)
C13_Witness ==
  /\ pc = "loop"
  /\ Len(modules) >= 2
  /\ LET v(k) == Verdict(terrain_mesh, current, modules, k)
     IN  /\ \E a, b, c \in 1..6 : a < b /\ b < c /\ v(a) # "kept" /\ v(b) = "kept" /\ v(c) # "kept"
         /\ \E a, b \in 1..6 : v(a) = "kept" /\ v(b) = "kept" /\ a # b
         /\ Cardinality({v(k) : k \in 1..6} \ {"kept"}) >= 2

(* C14: once seeded, the cursor is the position of a module of the colony   *)
C14_CursorInColony ==
  pc \in {"loop", "done"} => \E m \in 1..Len(modules) : current = modules[m]

(* C14 witness: after a BLOCKED iteration the cursor is a module other than *)
(* the one placed last, and the seed was snapped away from the seed point.  *)
C14_Witness ==
  /\ pc = "loop"
  /\ Len(modules) >= 2
  /\ history[Len(history)] = "BLOCKED"
  /\ current # modules[Len(modules)]
  /\ modules[1] # seed_point

(* C15: when an iteration is BLOCKED, every module of the colony is a       *)
(* possible new cursor: the seed, the module that was the cursor when the   *)
(* blockage occurred, and modules with no open direction included.  (The    *)
(* generator's values are resolved to RandomGrain steps, so the colony must *)
(* not be larger than that for each index to be hit.)                       *)
C15_WholeColony ==
  (/\ pc = "loop"
   /\ i \in LoopRange(max_modules)
   /\ NoCandidate(terrain_mesh, current, modules)
   /\ Len(modules) <= RandomGrain)
  => \A m \in 1..Len(modules) : ENABLED (Backtrack /\ current' = modules[m])

(* C15 witness: after one module was placed, the iteration at that module   *)
(* was BLOCKED and the re-selection returned that same module, not the seed *)
C15_Witness ==
  /\ history = <<"GROWING", "BLOCKED">>
  /\ Len(modules) = 2
  /\ current = modules[2]
  /\ current # modules[1]
  /\ NoCandidate(terrain_mesh, current, modules)

(* The modules of the colony mods from which sensing accepts no candidate *)
BlockedModules(mesh, mods) ==
  {m \in 1..Len(mods) : NoCandidate(mesh, mods[m], mods)}

(* C16: a module from which sensing accepts no candidate accepts none after *)
(* any later step of the run; once this holds of every module the colony    *)
(* stays as it is and every further iteration is BLOCKED; and a run whose    *)
(* first iteration is BLOCKED ends with the seed alone.                     *)
C16_BlockagePermanent ==
  /\ [][/\ BlockedModules(terrain_mesh, modules) \subseteq BlockedModules(terrain_mesh', modules')
        /\ \A m \in BlockedModules(terrain_mesh, modules) : modules'[m] = modules[m]
        /\ (pc = "loop" /\ BlockedModules(terrain_mesh, modules) = 1..Len(modules))
             => /\ modules' = modules
                /\ history' \in {history, Append(history, "BLOCKED")}]_vars
  /\ []((pc = "done" /\ Len(history) >= 1 /\ history[1] = "BLOCKED") => Len(modules) = 1)

(* C16 witness: the module placed first was blocked in the second           *)
(* iteration, the colony grew elsewhere in the third, and that module is    *)
(* still blocked                                                            *)
C16_Witness ==
  /\ history = <<"GROWING", "BLOCKED", "GROWING">>
  /\ Len(modules) = 3
  /\ 2 \in BlockedModules(terrain_mesh, modules)

(* The step from module j of the colony to the next one *)
Stride(j) == Sub(modules[j + 1], modules[j])
West240 == <<-1, -1, 0>>
East300 == <<1, -1, 0>>

C18_WeakProgress ==
  pc = "done" =>
    /\ Len(modules) < max_modules + 1 => Count(history, "BLOCKED") >= 1
    /\ Len(modules) = max_modules + 1 - Count(history, "BLOCKED")

(* C18 witness: a run has returned fewer than max_modules + 1 modules,      *)
(* BLOCKED iterations having used up the budget at a dead end, while        *)
(* another module of the colony still has an accepted candidate             *)
C18_Witness ==
  /\ pc = "done"
  /\ max_modules = 3
  /\ Len(modules) < max_modules + 1
  /\ history[Len(history)] = "BLOCKED"
  /\ BlockedModules(terrain_mesh, modules) # {}
  /\ BlockedModules(terrain_mesh, modules) # 1..Len(modules)

=============================================================================
